---- MODULE Spec2Model ----
(***************************************************************************)
(* A model of src/src/parser.py (class FIGAROParser): the two FIGARO       *)
(* tables on disk, construction with optional validation, and the four     *)
(* queries get_available_years, get_available_regions, get_value_range     *)
(* and get_flow_data.                                                      *)
(*                                                                         *)
(* Text is a sequence of one-character strings, so that split, strip,      *)
(* isdigit, int, str and join are computed the way Python computes them.   *)
(* An Optional is a sequence of length 0 (None) or 1.  A table cell is     *)
(* NaN or a number; numbers are integers in the dataset's unit (float      *)
(* rounding of sums is not modelled).                                      *)
(***************************************************************************)
EXTENDS Integers, Sequences, FiniteSets, TLC

VARIABLES imports_file, exports_file, parser, pc, call, outcome

vars == <<imports_file, exports_file, parser, pc, call, outcome>>

-----------------------------------------------------------------------------
(* Bounds of the model. *)

\* Most data rows in a generated table.
MaxRows == 2

\* Most value columns in a generated header.
MaxCols == 2

-----------------------------------------------------------------------------
(* Optionals, cells, text. *)

None == <<>>

Some(x) == <<x>>

IsNone(o) == o = <<>>

NaN == [nan |-> TRUE, num |-> 0]

Num(n) == [nan |-> FALSE, num |-> n]

IsNa(c) == c.nan

Digits == <<"0", "1", "2", "3", "4", "5", "6", "7", "8", "9">>

IsDigitChar(c) == \E i \in 1..10 : Digits[i] = c

DigitVal(c) == (CHOOSE i \in 1..10 : Digits[i] = c) - 1

\* Code-point order of the characters the datasets use (Python compares
\* strings by code point).
Alphabet == <<" ", ",", ".", "0", "1", "2", "3", "4", "5", "6", "7", "8", "9",
              "A", "E", "U", "X", "Y", "Z", "a", "b", "c", "k", "x">>

Ord(c) == CHOOSE i \in 1..Len(Alphabet) : Alphabet[i] = c

\* s < t for Python strings.
RECURSIVE StrLess(_, _)
StrLess(s, t) ==
    IF t = <<>> THEN FALSE
    ELSE IF s = <<>> THEN TRUE
    ELSE IF Head(s) = Head(t) THEN StrLess(Tail(s), Tail(t))
    ELSE Ord(Head(s)) < Ord(Head(t))

\* str.split(sep) for a one-character separator: always at least one part.
RECURSIVE Split(_, _)
Split(s, sep) ==
    IF s = <<>> THEN << <<>> >>
    ELSE LET rest == Split(Tail(s), sep)
         IN  IF Head(s) = sep THEN << <<>> >> \o rest
             ELSE << <<Head(s)>> \o Head(rest) >> \o Tail(rest)

\* sep.join(parts)
RECURSIVE Join(_, _)
Join(sep, parts) ==
    IF parts = <<>> THEN <<>>
    ELSE IF Len(parts) = 1 THEN Head(parts)
    ELSE Head(parts) \o sep \o Join(sep, Tail(parts))

RECURSIVE LStrip(_)
LStrip(s) == IF s # <<>> /\ Head(s) = " " THEN LStrip(Tail(s)) ELSE s

RECURSIVE RStrip(_)
RStrip(s) ==
    IF s # <<>> /\ s[Len(s)] = " " THEN RStrip(SubSeq(s, 1, Len(s) - 1)) ELSE s

\* str.strip()
Strip(s) == RStrip(LStrip(s))

\* str.isdigit(): non-empty and every character a digit.
IsDigit(s) == s # <<>> /\ \A i \in 1..Len(s) : IsDigitChar(s[i])

\* int(s) for a digit string.
RECURSIVE ToInt(_)
ToInt(s) ==
    IF s = <<>> THEN 0
    ELSE 10 * ToInt(SubSeq(s, 1, Len(s) - 1)) + DigitVal(s[Len(s)])

\* str(n) for n >= 0.
RECURSIVE Str(_)
Str(n) ==
    IF n < 10 THEN <<Digits[n + 1]>>
    ELSE Str(n \div 10) \o <<Digits[(n % 10) + 1]>>

\* sorted(xs) for a list of integers (insertion sort; equal elements stay).
RECURSIVE InsertInt(_, _)
InsertInt(x, xs) ==
    IF xs = <<>> THEN <<x>>
    ELSE IF x < Head(xs) THEN <<x>> \o xs
    ELSE <<Head(xs)>> \o InsertInt(x, Tail(xs))

RECURSIVE SortedInts(_)
SortedInts(xs) ==
    IF xs = <<>> THEN <<>>
    ELSE InsertInt(xs[Len(xs)], SortedInts(SubSeq(xs, 1, Len(xs) - 1)))

\* sorted(list(set_of_strings))
RECURSIVE SortedStrs(_)
SortedStrs(S) ==
    IF S = {} THEN <<>>
    ELSE LET m == CHOOSE x \in S : \A y \in S \ {x} : StrLess(x, y)
         IN  <<m>> \o SortedStrs(S \ {m})

Range(xs) == {xs[i] : i \in 1..Len(xs)}

-----------------------------------------------------------------------------
(* pandas.read_csv(path, sep='\t'[, nrows=n]) on a file of the model.       *)
(* A file is [exists, header, rows]: header is the tab-split first line     *)
(* (empty for a zero-byte file), each row has the key cell (text, empty for *)
(* an empty cell) and one value cell per remaining column.                  *)

ImportsPath == "figaro/estat_naio_10_fgti.tsv"

ExportsPath == "figaro/estat_naio_10_fgte.tsv"

\* How many of the first n names equal names[n + 1].
Earlier(names, n) == Cardinality({i \in 1..n : names[i] = names[n + 1]})

\* pandas renames a repeated column name x to x.1, x.2, ...
MangleDupeCols(names) ==
    IF Cardinality(Range(names)) = Len(names) THEN names
    ELSE [i \in 1..Len(names) |->
        IF Earlier(names, i - 1) = 0 THEN names[i]
        ELSE names[i] \o <<".">> \o Str(Earlier(names, i - 1))]

\* An empty cell of the key column is read as NaN (a float, not a string).
ReadKey(text) == IF text = <<>> THEN None ELSE Some(text)

Take(xs, n) == IF Len(xs) <= n THEN xs ELSE SubSeq(xs, 1, n)

\* nrows = None reads every row.
ReadCsv(file, nrows) ==
    IF ~file.exists THEN [err |-> "FileNotFoundError"]
    ELSE IF file.header = <<>> THEN [err |-> "EmptyDataError"]
    ELSE LET kept == IF IsNone(nrows) THEN file.rows ELSE Take(file.rows, nrows[1])
         IN  [err |-> "",
              columns |-> MangleDupeCols(file.header),
              rows |-> [i \in 1..Len(kept) |->
                          [key |-> ReadKey(kept[i].key), vals |-> kept[i].vals]]]

\* DataFrame.empty: no rows (a table that was read has at least one column).
DfEmpty(df) == df.rows = <<>>

\* year_str in df.columns
HasColumn(df, name) == \E i \in 1..Len(df.columns) : df.columns[i] = name

\* df[name]: the cells of the value column labelled name (labels are unique;
\* the key column of the datasets is never named like a year).
Column(df, name) ==
    LET j == CHOOSE i \in 1..Len(df.columns) : df.columns[i] = name
    IN  [i \in 1..Len(df.rows) |-> df.rows[i].vals[j - 1]]

-----------------------------------------------------------------------------
(* FIGAROParser's pure helpers. *)

StripAll(parts) == [i \in 1..Len(parts) |-> Strip(parts[i])]

\* parse_metadata(value): value is None for a NaN key cell.
parse_metadata(value) ==
    IF IsNone(value) \/ value[1] = <<>> THEN None
    ELSE LET parts == StripAll(Split(value[1], ","))
         IN  IF Len(parts) >= 5
             THEN Some([freq |-> parts[1], nace_r2 |-> parts[2], c_exp |-> parts[3],
                        unit |-> parts[4], geo |-> parts[5]])
             ELSE None

\* truncate_nace_code(code, level): code is an Optional text.
truncate_nace_code(code, level) ==
    IF IsNone(code) \/ code[1] = <<>> \/ level < 1 THEN code
    ELSE Some(Join(<<".">>, Take(Split(code[1], "."), level)))

-----------------------------------------------------------------------------
(* Outcomes of a call: a returned value or a raised exception. *)

Returned(v) == [kind |-> "ok", value |-> v]

Raised(kind, msg) == [kind |-> kind, msg |-> msg]

IsError(o) == o.kind # "ok"

-----------------------------------------------------------------------------
(* get_available_years *)

IsYearName(name) == IsDigit(Strip(name))

YearOfName(name) == ToInt(Strip(name))

\* [int(year.strip()) for year in year_columns if year.strip().isdigit()]
YearList(year_columns) ==
    LET kept == SelectSeq(year_columns, IsYearName)
    IN  [i \in 1..Len(kept) |-> YearOfName(kept[i])]

\* get_available_years without sorted().
get_available_years_Unsorted(ifile) ==
    LET r == ReadCsv(ifile, None)
    IN  IF r.err # ""
        THEN Raised("ValueError", [text |-> "Error reading years from dataset: ",
                                   cause |-> r.err])
        ELSE IF DfEmpty(r) THEN Returned(<<>>)
        ELSE Returned(YearList(Tail(r.columns)))

get_available_years(ifile) ==
    LET r == ReadCsv(ifile, None)
    IN  IF r.err # ""
        THEN Raised("ValueError", [text |-> "Error reading years from dataset: ",
                                   cause |-> r.err])
        ELSE IF DfEmpty(r) THEN Returned(<<>>)
        ELSE Returned(SortedInts(YearList(Tail(r.columns))))

-----------------------------------------------------------------------------
(* get_available_regions *)

\* df.iloc[:, 0].apply(self.parse_metadata)
MetadataCol(df) == [i \in 1..Len(df.rows) |-> parse_metadata(df.rows[i].key)]

\* {m.geo for m in meta if m is not None}
GeoSet(meta) == {meta[i][1].geo : i \in {j \in 1..Len(meta) : ~IsNone(meta[j])}}

get_available_regions(ifile, efile) ==
    LET ri == ReadCsv(ifile, None)
        re == ReadCsv(efile, None)
    IN  IF ri.err # "" \/ re.err # ""
        THEN Raised("ValueError", [text |-> "Error getting available regions: ",
                                   cause |-> IF ri.err # "" THEN ri.err ELSE re.err])
        ELSE Returned(SortedStrs(GeoSet(MetadataCol(ri)) \cup GeoSet(MetadataCol(re))))

-----------------------------------------------------------------------------
(* get_value_range *)

\* a < b for floats: false when either is NaN.
CellLess(a, b) == ~IsNa(a) /\ ~IsNa(b) /\ a.num < b.num

\* Python's min(a, b) and max(a, b): the first argument unless the second
\* compares below (above) it.
PyMin(a, b) == IF CellLess(b, a) THEN b ELSE a

PyMax(a, b) == IF CellLess(a, b) THEN b ELSE a

Present(cells) == SelectSeq(cells, LAMBDA c : ~IsNa(c))

\* Series.min() and Series.max(): missing cells are skipped, NaN when none is left.
RECURSIVE SeriesMin(_)
SeriesMin(cells) ==
    LET p == Present(cells)
    IN  IF p = <<>> THEN NaN
        ELSE IF Len(p) = 1 THEN p[1]
        ELSE LET m == SeriesMin(Tail(p))
             IN  IF p[1].num <= m.num THEN p[1] ELSE m

RECURSIVE SeriesMax(_)
SeriesMax(cells) ==
    LET p == Present(cells)
    IN  IF p = <<>> THEN NaN
        ELSE IF Len(p) = 1 THEN p[1]
        ELSE LET m == SeriesMax(Tail(p))
             IN  IF p[1].num >= m.num THEN p[1] ELSE m

\* What the try block of get_value_range does.
ValueRangeBody(ifile, efile, year) ==
    LET ri == ReadCsv(ifile, None)
        re == ReadCsv(efile, None)
        year_str == Str(year)
    IN  IF ri.err # "" THEN Raised(ri.err, [path |-> ImportsPath])
        ELSE IF re.err # "" THEN Raised(re.err, [path |-> ExportsPath])
        ELSE IF ~HasColumn(ri, year_str) \/ ~HasColumn(re, year_str)
        THEN Raised("YearNotFoundError", [text |-> "Year not found in data", year |-> year])
        ELSE Returned([min |-> PyMin(SeriesMin(Column(ri, year_str)),
                                     SeriesMin(Column(re, year_str))),
                       max |-> PyMax(SeriesMax(Column(ri, year_str)),
                                     SeriesMax(Column(re, year_str)))])

\* except Exception as e: raise ValueError(...) catches every exception of the
\* try block, YearNotFoundError included.
WrapValueRange(o) ==
    IF IsError(o)
    THEN Raised("ValueError", [text |-> "Error getting value range: ",
                               cause |-> o.kind, inner |-> o.msg])
    ELSE o

get_value_range(ifile, efile, year) == WrapValueRange(ValueRangeBody(ifile, efile, year))

-----------------------------------------------------------------------------
(* __init__ and _validate_files *)

EmptyMsg(path) == [text |-> "File is empty: ", path |-> path, sample |-> None]

\* except Exception as e: raise FileFormatError("Invalid FIGARO file format in
\* ...: " + str(e)): the message keeps the text of the exception it wraps.
WrapFormat(path, inner) ==
    Raised("FileFormatError", [text |-> "Invalid FIGARO file format in ",
                               path |-> path, inner |-> inner])

\* The body of the loop of _validate_files for one file: None when it passes.
ValidateFile(file, path) ==
    IF ~file.exists
    THEN Some(Raised("FileNotFoundError",
                     [text |-> "Required FIGARO file not found: ", path |-> path,
                      hint |-> "data/figaro/"]))
    ELSE LET r == ReadCsv(file, Some(1))
         IN  IF r.err = "EmptyDataError"
             THEN Some(Raised("FileFormatError", EmptyMsg(path)))
             ELSE IF DfEmpty(r) THEN Some(WrapFormat(path, EmptyMsg(path)))
             ELSE LET sample_value == r.rows[1].key
                  IN  IF IsNone(sample_value)
                      THEN Some(WrapFormat(path,
                               [text |-> "'float' object has no attribute 'split'",
                                path |-> path, sample |-> None]))
                      ELSE IF Len(Split(sample_value[1], ",")) < 5
                      THEN Some(WrapFormat(path,
                               [text |-> "does not have the expected comma-separated format",
                                path |-> path, sample |-> sample_value]))
                      ELSE None

\* validate_files with the existence of both files checked before any format.
validate_files_ExistenceFirst(ifile, efile) ==
    IF ~ifile.exists THEN ValidateFile(ifile, ImportsPath)
    ELSE IF ~efile.exists THEN ValidateFile(efile, ExportsPath)
    ELSE IF ~IsNone(ValidateFile(ifile, ImportsPath)) THEN ValidateFile(ifile, ImportsPath)
    ELSE ValidateFile(efile, ExportsPath)

\* for file_path in [self.imports_file, self.exports_file]: the first failure
\* is raised.
validate_files(ifile, efile) ==
    IF ~IsNone(ValidateFile(ifile, ImportsPath)) THEN ValidateFile(ifile, ImportsPath)
    ELSE ValidateFile(efile, ExportsPath)

\* __init__: None when the parser is constructed, else the exception.
init_parser(ifile, efile, validate) ==
    IF validate THEN validate_files(ifile, efile) ELSE None

-----------------------------------------------------------------------------
(* _process_flow_file and get_flow_data *)

\* result_df: the (nace_r2, value, geo) triple of each row.
ResultDf(df, year_str) ==
    LET meta == MetadataCol(df)
        col == Column(df, year_str)
    IN  [i \in 1..Len(df.rows) |->
            [nace_r2 |-> IF IsNone(meta[i]) THEN None ELSE Some(meta[i][1].nace_r2),
             value |-> col[i],
             geo |-> IF IsNone(meta[i]) THEN None ELSE Some(meta[i][1].geo)]]

\* A row DataFrame.dropna() removes: one with None or NaN in any column.
HasNa(row) == IsNone(row.nace_r2) \/ IsNa(row.value) \/ IsNone(row.geo)

\* DropNa with the filter left out.
DropNa_Off(rows, drop_nan) == rows

\* if drop_nan: result_df = result_df.dropna()
DropNa(rows, drop_nan) ==
    IF drop_nan THEN SelectSeq(rows, LAMBDA r : ~HasNa(r)) ELSE rows

\* AtLeast with the comparison made strict.
AtLeast_Strict(cell, min_value) == ~IsNa(cell) /\ cell.num > min_value

\* value >= min_value: false for NaN.
AtLeast(cell, min_value) == ~IsNa(cell) /\ cell.num >= min_value

\* FilterMinValue with zero-valued rows always removed.
FilterMinValue_DropZero(rows, min_value) ==
    SelectSeq(rows, LAMBDA r : IsNa(r.value) \/ (r.value.num # 0 /\ r.value.num >= min_value))

\* if min_value > 0: result_df = result_df[result_df['value'] >= min_value]
FilterMinValue(rows, min_value) ==
    IF min_value > 0 THEN SelectSeq(rows, LAMBDA r : AtLeast(r.value, min_value))
    ELSE rows

\* Series.isin(regions): None is in no list of region names.
IsIn(geo, region_list) == ~IsNone(geo) /\ geo[1] \in Range(region_list)

\* if regions: ... (None and the empty list are both falsy)
FilterRegions(rows, regions) ==
    IF IsNone(regions) \/ regions[1] = <<>> THEN rows
    ELSE SelectSeq(rows, LAMBDA r : IsIn(r.geo, regions[1]))

\* Series.sum() of the values: missing cells are skipped, 0 when none is left.
RECURSIVE SumCells(_)
SumCells(cells) ==
    IF cells = <<>> THEN 0
    ELSE (IF IsNa(Head(cells)) THEN 0 ELSE Head(cells).num) + SumCells(Tail(cells))

ValuesOf(rows) == [i \in 1..Len(rows) |-> rows[i].value]

\* GroupKey with the geography made part of the key.
GroupKey_WithGeo(row) ==
    IF IsNone(row.nace_r2) \/ IsNone(row.geo) THEN None
    ELSE Some(row.nace_r2[1] \o <<",">> \o row.geo[1])

\* The key of a row in groupby('nace_r2').
GroupKey(row) == row.nace_r2

\* result_df.groupby('nace_r2')['value'].sum().reset_index(): one row per
\* distinct key, in ascending key order; rows whose key is None are left out.
GroupBySum(rows) ==
    LET keys == {GroupKey(rows[i])[1] :
                     i \in {j \in 1..Len(rows) : ~IsNone(GroupKey(rows[j]))}}
        order == SortedStrs(keys)
    IN  [i \in 1..Len(order) |->
            [nace_r2 |-> Some(order[i]),
             value |-> Num(SumCells(ValuesOf(
                          SelectSeq(rows, LAMBDA r : GroupKey(r) = Some(order[i])))))]]

\* if nace_level is not None and nace_level > 0: truncate, then aggregate.
Aggregate(rows, nace_level) ==
    IF ~IsNone(nace_level) /\ nace_level[1] > 0
    THEN GroupBySum([i \in 1..Len(rows) |->
                        [rows[i] EXCEPT !.nace_r2 =
                            truncate_nace_code(rows[i].nace_r2, nace_level[1])]])
    ELSE rows

\* The returned list: one flow per row whose value is not NaN (the value of
\* a flow is a cell, float(row['value'])).
ToFlows(rows, flow_type) ==
    LET kept == SelectSeq(rows, LAMBDA r : ~IsNa(r.value))
    IN  [i \in 1..Len(kept) |->
            [source |-> kept[i].nace_r2, target |-> flow_type, value |-> kept[i].value]]

\* The message of YearNotFoundError calls get_available_years(), which may
\* itself raise.
YearNotFound(ifile, year) ==
    LET years == get_available_years(ifile)
    IN  IF IsError(years) THEN years
        ELSE Raised("YearNotFoundError",
                    [text |-> "Year not found in data. Available years: ",
                     year |-> year,
                     available |-> Join(<<",", " ">>,
                                        [i \in 1..Len(years.value) |-> Str(years.value[i])])])

\* process_flow_file with the threshold applied to the aggregated sums.
process_flow_file_ThresholdAfterSum(file, ifile, year, flow_type, min_value, drop_nan, nace_level, regions) ==
    LET r == ReadCsv(file, None)
        year_str == Str(year)
    IN  IF r.err # "" THEN Raised(r.err, [text |-> "read_csv"])
        ELSE IF DfEmpty(r) THEN Returned(<<>>)
        ELSE IF ~HasColumn(r, year_str) THEN YearNotFound(ifile, year)
        ELSE Returned(ToFlows(FilterMinValue(Aggregate(FilterRegions(
                 DropNa(ResultDf(r, year_str), drop_nan), regions),
                 nace_level), min_value), flow_type))

\* _process_flow_file: read, check the year, build result_df, filter,
\* aggregate, convert.
process_flow_file(file, ifile, year, flow_type, min_value, drop_nan, nace_level, regions) ==
    LET r == ReadCsv(file, None)
        year_str == Str(year)
    IN  IF r.err # "" THEN Raised(r.err, [text |-> "read_csv"])
        ELSE IF DfEmpty(r) THEN Returned(<<>>)
        ELSE IF ~HasColumn(r, year_str) THEN YearNotFound(ifile, year)
        ELSE Returned(ToFlows(Aggregate(FilterRegions(FilterMinValue(
                 DropNa(ResultDf(r, year_str), drop_nan), min_value), regions),
                 nace_level), flow_type))

\* WrapFlowData without the two re-raising handlers.
WrapFlowData_All(o) ==
    IF IsError(o)
    THEN Raised("ValueError", [text |-> "Error processing flow data for year: ",
                               cause |-> o.kind, inner |-> o.msg])
    ELSE o

\* except YearNotFoundError: raise / except FileFormatError: raise /
\* except Exception: raise ValueError(...)
WrapFlowData(o) ==
    IF IsError(o) /\ o.kind \notin {"YearNotFoundError", "FileFormatError"}
    THEN Raised("ValueError", [text |-> "Error processing flow data for year: ",
                               cause |-> o.kind, inner |-> o.msg])
    ELSE o

get_flow_data(ifile, efile, a) ==
    LET imports == IF a.include_imports
                   THEN process_flow_file(ifile, ifile, a.year, "Total Imports",
                            a.min_value, a.drop_nan, a.nace_level, a.regions)
                   ELSE Returned(<<>>)
        exports == IF a.include_exports
                   THEN process_flow_file(efile, ifile, a.year, "Total Exports",
                            a.min_value, a.drop_nan, a.nace_level, a.regions)
                   ELSE Returned(<<>>)
    IN  WrapFlowData(IF IsError(imports) THEN imports
                     ELSE IF IsError(exports) THEN exports
                     ELSE Returned(imports.value \o exports.value))

-----------------------------------------------------------------------------
(* The datasets the model is run on. *)

\* "A,a.b,E,U,X"
KeyAB_X == <<"A", ",", "a", ".", "b", ",", "E", ",", "U", ",", "X">>

\* "A,a.c,E,U,X"
KeyAC_X == <<"A", ",", "a", ".", "c", ",", "E", ",", "U", ",", "X">>

\* "A, a ,E,U, Y": parts padded with blanks, a code of one segment
KeyA_Y == <<"A", ",", " ", "a", " ", ",", "E", ",", "U", ",", " ", "Y">>

\* "A,a.b,E,U,Z"
KeyAB_Z == <<"A", ",", "a", ".", "b", ",", "E", ",", "U", ",", "Z">>

\* "a,b": too few parts to parse
KeyBad == <<"a", ",", "b">>

\* "A,a,E,U": four parts
KeyFour == <<"A", ",", "a", ",", "E", ",", "U">>

\* "A,a,E,U,X,Z": six parts
KeySix == <<"A", ",", "a", ",", "E", ",", "U", ",", "X", ",", "Z">>

Keys == {KeyAB_X, KeyA_Y, KeyBad}

Values == {NaN, Num(0), Num(1), Num(2)}

KeyColumn == <<"k">>

Col19 == <<"1", "9">>

Col20 == <<"2", "0">>

\* "19 ": a year name with a trailing blank
Col19Pad == <<"1", "9", " ">>

ColFlag == <<"x">>

ColNames == {Col19, Col20, Col19Pad, ColFlag}

SeqsUpTo(S, n) == UNION {[1..m -> S] : m \in 0..n}

File(header, rows) == [exists |-> TRUE, header |-> header, rows |-> rows]

MissingFile == [exists |-> FALSE, header |-> <<>>, rows |-> <<>>]

ZeroByteFile == File(<<>>, <<>>)

Row(key, vals) == [key |-> key, vals |-> vals]

\* Tables with the single year column 19 and every combination of rows.
RowTables ==
    {File(<<KeyColumn, Col19>>, rows) :
        rows \in SeqsUpTo({Row(k, <<v>>) : k \in Keys, v \in Values}, MaxRows)}

\* The exports table that goes with them: two codes under "a", a key that
\* does not parse, a missing value and a region the imports do not have.
FixedExports ==
    {File(<<KeyColumn, Col19>>,
          <<Row(KeyAC_X, <<Num(1)>>), Row(KeyBad, <<Num(2)>>),
            Row(KeyAB_Z, <<Num(2)>>), Row(KeyAB_X, <<NaN>>)>>)}

\* Tables with every header over ColNames, and no row or one row whose cells
\* are 1, 2, ... by position.
HeaderTables ==
    UNION {{File(<<KeyColumn>> \o h, <<>>),
            File(<<KeyColumn>> \o h, <<Row(KeyAB_X, [i \in 1..Len(h) |-> Num(i)])>>)} :
               h \in SeqsUpTo(ColNames, MaxCols)}

\* The exports table that goes with them.
FixedHeaders ==
    {File(<<KeyColumn, Col20, Col19>>, <<Row(KeyAB_Z, <<Num(1), Num(2)>>)>>)}

\* Files of every shape validation tells apart.
ShapeFiles ==
    {MissingFile, ZeroByteFile, File(<<KeyColumn, Col19>>, <<>>)}
    \cup {File(<<KeyColumn, Col19>>, <<Row(k, <<Num(1)>>)>>) :
             k \in {KeyAB_X, KeySix, KeyFour, KeyBad, <<>>}}

Datasets ==
    (RowTables \X FixedExports) \cup (HeaderTables \X FixedHeaders)
    \cup (ShapeFiles \X ShapeFiles)

-----------------------------------------------------------------------------
(* The arguments the callers pass. *)

YearArgs == {19, 21}

MinValueArgs == {0, 2}

LevelArgs == {None, Some(1), Some(2)}

RegionX == <<"X">>

RegionArgs(ifile, efile) ==
    LET all == get_available_regions(ifile, efile)
    IN  {None, Some(<<RegionX>>)}
        \cup (IF IsError(all) THEN {} ELSE {Some(all.value)})

FlowArgs(ifile, efile) ==
    [year : YearArgs, min_value : MinValueArgs, drop_nan : BOOLEAN,
     nace_level : LevelArgs, regions : RegionArgs(ifile, efile),
     include_imports : BOOLEAN, include_exports : BOOLEAN]

-----------------------------------------------------------------------------
(* The state machine: the files on disk, the parser object, and the caller. *)

NoCall == [op |-> "none"]

NoOutcome == [kind |-> "none"]

Init ==
    /\ \E d \in Datasets : imports_file = d[1] /\ exports_file = d[2]
    /\ parser = "none"
    /\ pc = "idle"
    /\ call = NoCall
    /\ outcome = NoOutcome

\* FIGAROParser(data_dir, validate_files)
Construct ==
    /\ parser = "none"
    /\ \E validate \in BOOLEAN :
        LET e == init_parser(imports_file, exports_file, validate)
        IN  /\ call' = [op |-> "__init__", validate_files |-> validate]
            /\ parser' = IF IsNone(e) THEN "ready" ELSE "failed"
            /\ outcome' = IF IsNone(e) THEN Returned("parser") ELSE e[1]
    /\ pc' = "done"
    /\ UNCHANGED <<imports_file, exports_file>>

GetAvailableYears ==
    /\ parser = "ready" /\ pc = "idle"
    /\ call' = [op |-> "get_available_years"]
    /\ outcome' = get_available_years(imports_file)
    /\ pc' = "done"
    /\ UNCHANGED <<imports_file, exports_file, parser>>

GetAvailableRegions ==
    /\ parser = "ready" /\ pc = "idle"
    /\ call' = [op |-> "get_available_regions"]
    /\ outcome' = get_available_regions(imports_file, exports_file)
    /\ pc' = "done"
    /\ UNCHANGED <<imports_file, exports_file, parser>>

GetValueRange ==
    /\ parser = "ready" /\ pc = "idle"
    /\ \E year \in YearArgs :
        /\ call' = [op |-> "get_value_range", year |-> year]
        /\ outcome' = get_value_range(imports_file, exports_file, year)
    /\ pc' = "done"
    /\ UNCHANGED <<imports_file, exports_file, parser>>

GetFlowData ==
    /\ parser = "ready" /\ pc = "idle"
    /\ \E a \in FlowArgs(imports_file, exports_file) :
        /\ call' = [op |-> "get_flow_data", args |-> a]
        /\ outcome' = get_flow_data(imports_file, exports_file, a)
    /\ pc' = "done"
    /\ UNCHANGED <<imports_file, exports_file, parser>>

\* The caller takes the result and is free to call again.
Return ==
    /\ parser = "ready" /\ pc = "done"
    /\ pc' = "idle"
    /\ call' = NoCall
    /\ outcome' = NoOutcome
    /\ UNCHANGED <<imports_file, exports_file, parser>>

Next ==
    \/ Construct
    \/ GetAvailableYears
    \/ GetAvailableRegions
    \/ GetValueRange
    \/ GetFlowData
    \/ Return

Spec == Init /\ [][Next]_vars

-----------------------------------------------------------------------------
(* Vocabulary of the properties, stated on the files themselves. *)

Done(op) == pc = "done" /\ call.op = op

\* The file can be read as a table.
Readable(file) == file.exists /\ file.header # <<>>

\* The year is the label of a value column of the table as pandas reads it.
YearIn(file, year) ==
    /\ Readable(file)
    /\ \E j \in 2..Len(file.header) : MangleDupeCols(file.header)[j] = Str(year)

\* The cell of row i in the year's column.
CellOf(file, i, year) ==
    LET j == CHOOSE c \in 2..Len(file.header) : MangleDupeCols(file.header)[c] = Str(year)
    IN  file.rows[i].vals[j - 1]

KeyParts(file, i) == Split(file.rows[i].key, ",")

\* The key of row i has the five fields.
Parses(file, i) == Len(KeyParts(file, i)) >= 5

CodeOf(file, i) == Strip(KeyParts(file, i)[2])

GeoOf(file, i) == Strip(KeyParts(file, i)[5])

\* The source of the flow of row i: None for a key that does not parse.
SourceOf(file, i) == IF Parses(file, i) THEN Some(CodeOf(file, i)) ELSE None

RECURSIVE Ascending(_, _)
Ascending(lo, hi) == IF lo > hi THEN <<>> ELSE <<lo>> \o Ascending(lo + 1, hi)

\* The flows of the rows of the table that satisfy keep, in table order.
FlowsOfRows(file, year, flow_type, keep(_)) ==
    LET idx == SelectSeq(Ascending(1, Len(file.rows)), keep)
    IN  [n \in 1..Len(idx) |->
            [source |-> SourceOf(file, idx[n]), target |-> flow_type,
             value |-> CellOf(file, idx[n], year)]]

ImportsPart(flows) == SelectSeq(flows, LAMBDA f : f.target = "Total Imports")

ExportsPart(flows) == SelectSeq(flows, LAMBDA f : f.target = "Total Exports")

\* get_flow_data(year) with every other argument at its default.
DefaultCall ==
    /\ Done("get_flow_data")
    /\ call.args.min_value = 0 /\ call.args.drop_nan
    /\ IsNone(call.args.nace_level) /\ IsNone(call.args.regions)
    /\ call.args.include_imports /\ call.args.include_exports

BothHaveYear == YearIn(imports_file, call.args.year) /\ YearIn(exports_file, call.args.year)

-----------------------------------------------------------------------------
(* C1 *)

\* C1 as stated: get_flow_data with default arguments never emits a flow
\* whose value is exactly zero (its imports-derived flows are the rows whose
\* value is present and non-zero).  The code keeps zero values.
C1_ZeroExcluded ==
    (DefaultCall /\ outcome.kind = "ok") =>
        \A n \in 1..Len(outcome.value) : outcome.value[n].value # Num(0)

\* C1 (amended): with default arguments the imports-derived flows are exactly
\* the rows of the imports table whose key parses and whose value for the year
\* is present, zero included, in table order.
C1_DefaultFlows ==
    (DefaultCall /\ BothHaveYear) =>
        /\ outcome.kind = "ok"
        /\ ImportsPart(outcome.value) =
             FlowsOfRows(imports_file, call.args.year, "Total Imports",
                 LAMBDA i : /\ Parses(imports_file, i)
                            /\ ~IsNa(CellOf(imports_file, i, call.args.year)))

\* A default call that emits a zero-valued import flow and drops another row.
C1_Witness ==
    /\ DefaultCall /\ BothHaveYear /\ outcome.kind = "ok"
    /\ \E n \in 1..Len(outcome.value) :
          outcome.value[n].target = "Total Imports" /\ outcome.value[n].value = Num(0)
    /\ Len(ImportsPart(outcome.value)) < Len(imports_file.rows)

-----------------------------------------------------------------------------
(* C2 *)

\* Every table the call reads has the year's column.
RequestedHaveYear ==
    /\ call.args.include_imports => YearIn(imports_file, call.args.year)
    /\ call.args.include_exports => YearIn(exports_file, call.args.year)

\* Row i passes the region filter of the call.
PassesRegions(file, i, regions) ==
    \/ IsNone(regions)
    \/ regions[1] = <<>>
    \/ Parses(file, i) /\ GeoOf(file, i) \in Range(regions[1])

\* Row i has a present value that reaches the threshold.
ReachesMin(file, i, year, min_value) ==
    LET c == CellOf(file, i, year) IN ~IsNa(c) /\ c.num >= min_value

\* The flows a table contributes when it is included.
Contribution(included, file, flow_type, keep(_)) ==
    IF included THEN FlowsOfRows(file, call.args.year, flow_type, keep) ELSE <<>>

ThresholdCall ==
    /\ Done("get_flow_data")
    /\ call.args.min_value > 0
    /\ IsNone(call.args.nace_level)
    /\ RequestedHaveYear

\* C2 as stated: with min_value > 0 and no level, a row with a present value v
\* is emitted iff v >= min_value and it passes the region filter.  With
\* drop_nan a row whose key does not parse is dropped whatever its value.
C2_EmittedIffAtLeast ==
    ThresholdCall =>
        /\ outcome.kind = "ok"
        /\ outcome.value =
             Contribution(call.args.include_imports, imports_file, "Total Imports",
                 LAMBDA i : /\ ReachesMin(imports_file, i, call.args.year, call.args.min_value)
                            /\ PassesRegions(imports_file, i, call.args.regions))
             \o
             Contribution(call.args.include_exports, exports_file, "Total Exports",
                 LAMBDA i : /\ ReachesMin(exports_file, i, call.args.year, call.args.min_value)
                            /\ PassesRegions(exports_file, i, call.args.regions))

\* C2 (amended): with min_value > 0 and no level, a row with a present value v
\* is emitted iff v >= min_value, it passes the region filter and, when
\* drop_nan is true, its key parses; v = min_value is kept, v below it is
\* not, and every emitted flow has value >= min_value.
C2_Threshold ==
    ThresholdCall =>
        /\ outcome.kind = "ok"
        /\ outcome.value =
             Contribution(call.args.include_imports, imports_file, "Total Imports",
                 LAMBDA i : /\ ReachesMin(imports_file, i, call.args.year, call.args.min_value)
                            /\ PassesRegions(imports_file, i, call.args.regions)
                            /\ (call.args.drop_nan => Parses(imports_file, i)))
             \o
             Contribution(call.args.include_exports, exports_file, "Total Exports",
                 LAMBDA i : /\ ReachesMin(exports_file, i, call.args.year, call.args.min_value)
                            /\ PassesRegions(exports_file, i, call.args.regions)
                            /\ (call.args.drop_nan => Parses(exports_file, i)))
        /\ \A n \in 1..Len(outcome.value) :
              /\ ~IsNa(outcome.value[n].value)
              /\ outcome.value[n].value.num >= call.args.min_value

\* A call whose threshold keeps a row at exactly min_value and drops a row
\* just below it.
C2_Witness ==
    /\ ThresholdCall /\ call.args.include_imports /\ outcome.kind = "ok"
    /\ \E i, j \in 1..Len(imports_file.rows) :
          /\ CellOf(imports_file, i, call.args.year) = Num(call.args.min_value)
          /\ CellOf(imports_file, j, call.args.year) = Num(call.args.min_value - 1)
    /\ Len(ImportsPart(outcome.value)) = 1
    /\ ImportsPart(outcome.value)[1].value = Num(call.args.min_value)

-----------------------------------------------------------------------------
(* C3 *)

\* The table can be read and has a data row (what validation requires).
HasData(file) == Readable(file) /\ file.rows # <<>>

\* The year is a column of neither table.
YearAbsent ==
    /\ HasData(imports_file) /\ HasData(exports_file)
    /\ ~YearIn(imports_file, call.args.year)
    /\ ~YearIn(exports_file, call.args.year)

\* The value columns of the table, as pandas labels them, that name year y.
YearColumns(file, y) ==
    {j \in 2..Len(file.header) :
        LET name == Strip(MangleDupeCols(file.header)[j])
        IN  IsDigit(name) /\ ToInt(name) = y}

\* The years the value columns of the table name.
HeaderYears(file) ==
    {ToInt(Strip(MangleDupeCols(file.header)[j])) :
        j \in {c \in 2..Len(file.header) : IsDigit(Strip(MangleDupeCols(file.header)[c]))}}

\* The numbers a message lists after "Available years: ".
ListedYears(text) ==
    IF text = <<>> THEN <<>>
    ELSE LET parts == Split(text, ",")
         IN  [n \in 1..Len(parts) |-> ToInt(Strip(parts[n]))]

\* The text lists, in ascending order and joined by ", ", one number for each
\* digit-named column of the imports table.
ListsImportYears(text) ==
    LET ys == ListedYears(text)
    IN  /\ text = Join(<<",", " ">>, [n \in 1..Len(ys) |-> Str(ys[n])])
        /\ \A n \in 1..(Len(ys) - 1) : ys[n] <= ys[n + 1]
        /\ \A y \in Range(ys) \cup HeaderYears(imports_file) :
              Cardinality({n \in 1..Len(ys) : ys[n] = y})
                  = Cardinality(YearColumns(imports_file, y))

\* C3 as stated: whatever the other arguments, a year absent from the tables
\* makes get_flow_data fail with YearNotFoundError.  With both include
\* toggles off no table is read and the empty list is returned.
C3_AlwaysYearNotFound ==
    (Done("get_flow_data") /\ YearAbsent) => outcome.kind = "YearNotFoundError"

\* C3 (amended): on tables that have data, for every min_value, drop_nan,
\* nace_level and regions, a year absent from both tables makes get_flow_data
\* fail with YearNotFoundError, and return no list, when at least one of
\* include_imports and include_exports is true; the message lists the
\* digit-named columns of the imports table in ascending order, joined by
\* ", ".  With both toggles off it returns the empty list.
C3_YearNotFound ==
    (Done("get_flow_data") /\ YearAbsent) =>
        IF call.args.include_imports \/ call.args.include_exports
        THEN /\ outcome.kind = "YearNotFoundError"
             /\ outcome.msg.year = call.args.year
             /\ ListsImportYears(outcome.msg.available)
        ELSE outcome = Returned(<<>>)

\* The error of a call that reads only the exports table, listing two years
\* the imports header holds in descending order.
C3_Witness ==
    /\ Done("get_flow_data") /\ YearAbsent
    /\ ~call.args.include_imports /\ call.args.include_exports
    /\ outcome.kind = "YearNotFoundError"
    /\ imports_file.header = <<KeyColumn, Col20, Col19>>
    /\ ListedYears(outcome.msg.available) = <<19, 20>>

-----------------------------------------------------------------------------
(* C4 *)

\* What is wrong with a file, if anything.
Shape(file) ==
    IF ~file.exists THEN "missing"
    ELSE IF file.header = <<>> \/ file.rows = <<>> THEN "empty"
    ELSE IF file.rows[1].key = <<>> THEN "no key"
    ELSE IF Len(Split(file.rows[1].key, ",")) < 5 THEN "short key"
    ELSE "good"

\* The innermost message of an exception: a wrapping message keeps the text
\* of the exception it wraps.
Innermost(msg) == IF "inner" \in DOMAIN msg THEN msg.inner ELSE msg

\* The exception validation raises for a file of the given shape.
ReportsShape(o, file, path) ==
    CASE Shape(file) = "missing" ->
            o.kind = "FileNotFoundError" /\ o.msg.path = path
      [] Shape(file) = "empty" ->
            /\ o.kind = "FileFormatError"
            /\ Innermost(o.msg).text = "File is empty: "
            /\ Innermost(o.msg).path = path
      [] Shape(file) = "short key" ->
            /\ o.kind = "FileFormatError"
            /\ Innermost(o.msg).path = path
            /\ Innermost(o.msg).sample = Some(file.rows[1].key)
      [] Shape(file) = "no key" ->
            /\ o.kind = "FileFormatError"
            /\ Innermost(o.msg).path = path
            /\ Innermost(o.msg).sample = None
      [] OTHER -> FALSE

BothGood == Shape(imports_file) = "good" /\ Shape(exports_file) = "good"

\* C4 as stated: with validate_files=true construction succeeds iff both
\* files are good; whenever either file is missing it fails with
\* FileNotFoundError naming a missing path; whenever both exist but one is
\* empty or ill-shaped it fails with FileFormatError carrying the sample value
\* or "File is empty".  With validate_files=false it never fails.  The code
\* checks the imports file completely before it looks at the exports file.
C4_MissingAlwaysNotFound ==
    Done("__init__") =>
        IF ~call.validate_files \/ BothGood THEN outcome.kind = "ok"
        ELSE IF ~imports_file.exists \/ ~exports_file.exists
        THEN /\ outcome.kind = "FileNotFoundError"
             /\ \/ ~imports_file.exists /\ outcome.msg.path = ImportsPath
                \/ ~exports_file.exists /\ outcome.msg.path = ExportsPath
        ELSE /\ outcome.kind = "FileFormatError"
             /\ \/ Innermost(outcome.msg).text = "File is empty: "
                \/ ~IsNone(Innermost(outcome.msg).sample)

\* C4 (amended): with validate_files=true construction succeeds iff both
\* files exist, are non-empty and have a first key of at least 5 parts.
\* Otherwise the error is that of the first file, imports before exports,
\* that is not good: FileNotFoundError naming its path when it is missing,
\* FileFormatError saying "File is empty" when it is empty, FileFormatError
\* carrying the sample value when its first key has fewer than 5 parts, and
\* FileFormatError without a sample when its first key cell is empty.  With
\* validate_files=false construction never fails and the parser is ready.
C4_Validation ==
    Done("__init__") =>
        IF ~call.validate_files \/ BothGood
        THEN outcome.kind = "ok" /\ parser = "ready"
        ELSE /\ parser = "failed"
             /\ IF Shape(imports_file) # "good"
                THEN ReportsShape(outcome, imports_file, ImportsPath)
                ELSE ReportsShape(outcome, exports_file, ExportsPath)

\* Validation that reports the ill-shaped key of the imports file although
\* the exports file is missing.
C4_Witness ==
    /\ Done("__init__") /\ call.validate_files
    /\ Shape(imports_file) = "short key" /\ Shape(exports_file) = "missing"
    /\ outcome.kind = "FileFormatError"
    /\ Innermost(outcome.msg).sample = Some(KeyBad)

-----------------------------------------------------------------------------
(* C5 *)

\* Row i is still there after the NaN, threshold and region filters.
Survives(file, i) ==
    /\ call.args.drop_nan =>
          Parses(file, i) /\ ~IsNa(CellOf(file, i, call.args.year))
    /\ call.args.min_value > 0 =>
          ReachesMin(file, i, call.args.year, call.args.min_value)
    /\ PassesRegions(file, i, call.args.regions)

\* The first L dot-separated segments of a code; a code with fewer is unchanged.
FirstSegments(code, L) ==
    LET parts == Split(code, ".")
    IN  Join(<<".">>, SubSeq(parts, 1, IF L < Len(parts) THEN L ELSE Len(parts)))

TruncatedCodeOf(file, i) == FirstSegments(CodeOf(file, i), call.args.nace_level[1])

\* The surviving rows with a parsed key that fall under a truncated code, and
\* under a (truncated code, geography) pair.
RowsOfCode(file, c) ==
    {i \in 1..Len(file.rows) :
        Survives(file, i) /\ Parses(file, i) /\ TruncatedCodeOf(file, i) = c}

RowsOfPair(file, c, g) == {i \in RowsOfCode(file, c) : GeoOf(file, i) = g}

SurvivingCodes(file) ==
    {TruncatedCodeOf(file, i) :
        i \in {j \in 1..Len(file.rows) : Survives(file, j) /\ Parses(file, j)}}

SurvivingPairs(file) ==
    {<<TruncatedCodeOf(file, i), GeoOf(file, i)>> :
        i \in {j \in 1..Len(file.rows) : Survives(file, j) /\ Parses(file, j)}}

\* The sum of the present values of a set of rows.
RECURSIVE SumOfRows(_, _)
SumOfRows(file, S) ==
    IF S = {} THEN 0
    ELSE LET i == CHOOSE x \in S : TRUE
             c == CellOf(file, i, call.args.year)
         IN  (IF IsNa(c) THEN 0 ELSE c.num) + SumOfRows(file, S \ {i})

LevelCall ==
    /\ Done("get_flow_data")
    /\ ~IsNone(call.args.nace_level) /\ call.args.nace_level[1] > 0
    /\ RequestedHaveYear

\* One flow per (truncated code, geography) pair of the table, with the sum of
\* the pair's rows.
OneFlowPerPair(flows, file) ==
    /\ Len(flows) = Cardinality(SurvivingPairs(file))
    /\ \A p \in SurvivingPairs(file) :
          \E n \in 1..Len(flows) :
              /\ flows[n].source = Some(p[1])
              /\ flows[n].value = Num(SumOfRows(file, RowsOfPair(file, p[1], p[2])))

\* One flow per truncated code of the table, in ascending order of the code,
\* with the sum of all the rows of the code.
OneFlowPerCode(flows, file) ==
    /\ Len(flows) = Cardinality(SurvivingCodes(file))
    /\ \A n \in 1..Len(flows) :
          /\ ~IsNone(flows[n].source)
          /\ flows[n].source[1] \in SurvivingCodes(file)
          /\ flows[n].value = Num(SumOfRows(file, RowsOfCode(file, flows[n].source[1])))
    /\ \A n \in 1..(Len(flows) - 1) : StrLess(flows[n].source[1], flows[n + 1].source[1])

\* C5 as stated: with a level L > 0 each table yields exactly one flow per
\* distinct (truncated code, geography) pair of its surviving rows, with the
\* sum of the pair; rows of different geographies are not merged.  (Stated
\* here for drop_nan = true.)  The code groups by the truncated code alone.
C5_GroupedByCodeAndGeo ==
    (LevelCall /\ call.args.drop_nan) =>
        /\ outcome.kind = "ok"
        /\ call.args.include_imports =>
              OneFlowPerPair(ImportsPart(outcome.value), imports_file)
        /\ call.args.include_exports =>
              OneFlowPerPair(ExportsPart(outcome.value), exports_file)

\* C5 (amended): with a level L > 0 the code of each surviving row is cut to
\* its first L dot-separated segments (a shorter code is unchanged), and each
\* table yields exactly one flow per distinct truncated code of its surviving
\* rows with a parsed key, in ascending order of the code, whose value is the
\* sum of the present values of all rows of that code: rows of the same
\* truncated code are merged whatever their geographies.
C5_GroupedByCode ==
    LevelCall =>
        /\ outcome.kind = "ok"
        /\ outcome.value = ImportsPart(outcome.value) \o ExportsPart(outcome.value)
        /\ IF call.args.include_imports
           THEN OneFlowPerCode(ImportsPart(outcome.value), imports_file)
           ELSE ImportsPart(outcome.value) = <<>>
        /\ IF call.args.include_exports
           THEN OneFlowPerCode(ExportsPart(outcome.value), exports_file)
           ELSE ExportsPart(outcome.value) = <<>>

\* A level-1 call that merges a row of geography X and a row of geography Y,
\* with values 1 and 2, into the one flow "a" of value 3.
C5_Witness ==
    /\ LevelCall /\ call.args.nace_level[1] = 1 /\ call.args.include_imports
    /\ outcome.kind = "ok"
    /\ Len(imports_file.rows) = 2
    /\ imports_file.rows[1] = Row(KeyAB_X, <<Num(1)>>)
    /\ imports_file.rows[2] = Row(KeyA_Y, <<Num(2)>>)
    /\ ImportsPart(outcome.value) =
          <<[source |-> Some(<<"a">>), target |-> "Total Imports", value |-> Num(3)]>>

-----------------------------------------------------------------------------
(* C6 *)

\* The file without the rows whose value for the year is missing.
WithoutMissing(file, year) ==
    IF ~YearIn(file, year) THEN file
    ELSE [file EXCEPT !.rows =
            LET idx == SelectSeq(Ascending(1, Len(file.rows)),
                                 LAMBDA i : ~IsNa(CellOf(file, i, year)))
            IN  [n \in 1..Len(idx) |-> file.rows[idx[n]]]]

\* C6: for every dataset and every min_value, nace_level, regions and include
\* toggles, when drop_nan is true the returned list holds no flow whose value
\* is NaN, and no flow derives from a row whose value for the year is missing:
\* the list is the one the same call returns on the tables without those rows.
C6_NoMissingValues ==
    (Done("get_flow_data") /\ call.args.drop_nan /\ outcome.kind = "ok") =>
        /\ \A n \in 1..Len(outcome.value) : ~IsNa(outcome.value[n].value)
        /\ outcome = get_flow_data(WithoutMissing(imports_file, call.args.year),
                                   WithoutMissing(exports_file, call.args.year),
                                   call.args)

\* An aggregating call with drop_nan on a table that has a row with a missing
\* value beside a row with a present one.
C6_Witness ==
    /\ Done("get_flow_data") /\ call.args.drop_nan /\ outcome.kind = "ok"
    /\ call.args.include_imports
    /\ call.args.nace_level = Some(1)
    /\ YearIn(imports_file, call.args.year)
    /\ \E i, j \in 1..Len(imports_file.rows) :
          /\ IsNa(CellOf(imports_file, i, call.args.year))
          /\ Parses(imports_file, i)
          /\ ~IsNa(CellOf(imports_file, j, call.args.year))
    /\ Len(ImportsPart(outcome.value)) = 1

-----------------------------------------------------------------------------
(* C7 *)

\* C7: for every dataset, year and setting of the other filters,
\* get_flow_data(..., regions=None) returns what get_flow_data(...,
\* regions=get_available_regions()) returns.  With drop_nan=false the code
\* emits a row whose key does not parse when regions is None, and filters it
\* out when the full list of regions is passed.
C7_NoneIsAllRegions ==
    (/\ Done("get_flow_data") /\ IsNone(call.args.regions)
     /\ ~IsError(get_available_regions(imports_file, exports_file))) =>
        outcome = get_flow_data(imports_file, exports_file,
                      [call.args EXCEPT !.regions =
                          Some(get_available_regions(imports_file, exports_file).value)])

-----------------------------------------------------------------------------
(* C8 *)

\* C8: get_value_range(year) fails with YearNotFoundError exactly when the
\* year's column is missing from the imports table or from the exports table.
\* The code raises it inside a try block whose handler turns every exception
\* into ValueError.
C8_ValueRangeYearNotFound ==
    (Done("get_value_range") /\ Readable(imports_file) /\ Readable(exports_file)) =>
        (outcome.kind = "YearNotFoundError"
            <=> (\/ ~YearIn(imports_file, call.year)
                 \/ ~YearIn(exports_file, call.year)))

-----------------------------------------------------------------------------
(* C9 *)

RECURSIVE SumFlows(_)
SumFlows(flows) ==
    IF flows = <<>> THEN 0
    ELSE (IF IsNa(Head(flows).value) THEN 0 ELSE Head(flows).value.num)
         + SumFlows(Tail(flows))

\* C9: with drop_nan=false, min_value=0, no regions and no level, the values
\* of the emitted "Total Imports" flows add up to the sum of the imports
\* table's year column over the rows whose key parses.  The code also emits,
\* with source None, the rows whose key does not parse.
C9_Conservation ==
    (/\ Done("get_flow_data") /\ ~call.args.drop_nan /\ call.args.min_value = 0
     /\ IsNone(call.args.regions) /\ IsNone(call.args.nace_level)
     /\ call.args.include_imports /\ RequestedHaveYear) =>
        /\ outcome.kind = "ok"
        /\ SumFlows(ImportsPart(outcome.value)) =
              SumOfRows(imports_file,
                  {i \in 1..Len(imports_file.rows) : Parses(imports_file, i)})

-----------------------------------------------------------------------------
(* C10 *)

\* The value columns, as pandas labels them, whose name is all digits.
DigitColumns(file) ==
    {j \in 2..Len(file.header) : IsDigit(MangleDupeCols(file.header)[j])}

\* A valid dataset: the table has data and no column name carries blanks
\* around it (the year columns are plain year strings).
ValidImports ==
    /\ HasData(imports_file)
    /\ \A j \in 2..Len(imports_file.header) :
          Strip(imports_file.header[j]) = imports_file.header[j]

\* C10: for a valid dataset get_available_years() returns a strictly
\* ascending sequence of integers, one for each column of the imports header
\* after the key column whose name is all digits, and nothing else.
C10_AvailableYears ==
    (Done("get_available_years") /\ ValidImports) =>
        /\ outcome.kind = "ok"
        /\ \A n \in 1..(Len(outcome.value) - 1) : outcome.value[n] < outcome.value[n + 1]
        /\ Range(outcome.value) =
              {ToInt(MangleDupeCols(imports_file.header)[j]) : j \in DigitColumns(imports_file)}
        /\ Len(outcome.value) = Cardinality(DigitColumns(imports_file))

\* The years of a header that holds them in descending order.
C10_Witness ==
    /\ Done("get_available_years") /\ ValidImports
    /\ imports_file.header = <<KeyColumn, Col20, Col19>>
    /\ outcome = Returned(<<19, 20>>)

-----------------------------------------------------------------------------
(* C11 *)

\* get_flow_data with a threshold and a level: the filters and the
\* aggregation both act.
AggregatedCall == LevelCall /\ call.args.min_value > 0

\* The rows of a truncated code that individually reach the threshold and
\* pass the region filter: the constituent rows of the code's flow.
PassingRows(file, c, a) ==
    {i \in 1..Len(file.rows) :
        /\ Parses(file, i)
        /\ FirstSegments(CodeOf(file, i), a.nace_level[1]) = c
        /\ ReachesMin(file, i, a.year, a.min_value)
        /\ PassesRegions(file, i, a.regions)}

\* The sum of the values of a set of rows in the year's column.
RECURSIVE SumOfValues(_, _, _)
SumOfValues(file, S, year) ==
    IF S = {} THEN 0
    ELSE LET i == CHOOSE x \in S : TRUE
             c == CellOf(file, i, year)
         IN  (IF IsNa(c) THEN 0 ELSE c.num) + SumOfValues(file, S \ {i}, year)

\* The truncated codes of a table that have at least one constituent row.
PassingCodes(file, a) ==
    {c \in {FirstSegments(CodeOf(file, i), a.nace_level[1]) :
               i \in {j \in 1..Len(file.rows) : Parses(file, j)}} :
        PassingRows(file, c, a) # {}}

\* Every flow of the table is the sum of exactly the constituent rows of its
\* code, and every code with a constituent row has its flow.
SumsOfPassingRows(flows, file, a) ==
    /\ \A n \in 1..Len(flows) :
          /\ ~IsNone(flows[n].source)
          /\ flows[n].source[1] \in PassingCodes(file, a)
          /\ flows[n].value =
                Num(SumOfValues(file, PassingRows(file, flows[n].source[1], a), a.year))
    /\ \A c \in PassingCodes(file, a) :
          \E n \in 1..Len(flows) : flows[n].source = Some(c)

\* Some flow of the list has a value below the threshold.
SomeFlowBelow(flows, min_value) ==
    \E n \in 1..Len(flows) :
        ~IsNa(flows[n].value) /\ flows[n].value.num < min_value

\* Some dataset and some call with a threshold and a level give a flow whose
\* value is below the threshold.
BelowThresholdPossible ==
    \E d \in Datasets :
        \E a \in FlowArgs(d[1], d[2]) :
            /\ a.min_value > 0
            /\ ~IsNone(a.nace_level) /\ a.nace_level[1] > 0
            /\ LET o == get_flow_data(d[1], d[2], a)
               IN  o.kind = "ok" /\ SomeFlowBelow(o.value, a.min_value)

\* C11 as stated: with min_value > 0 and a level > 0 the threshold and the
\* region filter are applied to the raw rows before truncation and summation,
\* so that an aggregated flow can come out below min_value although each of
\* its constituent rows passed the threshold.  No dataset and no call give
\* such a flow: a sum of one or more values that are each >= min_value > 0 is
\* itself >= min_value.
C11_AggregateCanFallBelow ==
    /\ AggregatedCall =>
          /\ outcome.kind = "ok"
          /\ call.args.include_imports =>
                SumsOfPassingRows(ImportsPart(outcome.value), imports_file, call.args)
          /\ call.args.include_exports =>
                SumsOfPassingRows(ExportsPart(outcome.value), exports_file, call.args)
    /\ BelowThresholdPossible

\* C11 (amended): with min_value > 0 and a level > 0 the threshold and the
\* region filter are applied to the raw rows before truncation and summation:
\* each aggregated flow is the sum of exactly the rows of its truncated code
\* that individually have a value >= min_value and pass the region filter
\* (a row below the threshold adds nothing to the sum), and therefore no
\* emitted aggregated flow has a value below min_value.
C11_FilteredBeforeSum ==
    AggregatedCall =>
        /\ outcome.kind = "ok"
        /\ call.args.include_imports =>
              SumsOfPassingRows(ImportsPart(outcome.value), imports_file, call.args)
        /\ call.args.include_exports =>
              SumsOfPassingRows(ExportsPart(outcome.value), exports_file, call.args)
        /\ ~SomeFlowBelow(outcome.value, call.args.min_value)
        /\ \A n \in 1..Len(outcome.value) : ~IsNa(outcome.value[n].value)

\* A level-1 call with threshold 2: the imports rows a.b and a, both of value
\* 2, are summed to 4, and the exports flow "a" is 2 because the row a.c of
\* value 1 was filtered out before the sum (with it the sum would be 3).
C11_Witness ==
    /\ AggregatedCall /\ call.args.nace_level[1] = 1 /\ call.args.min_value = 2
    /\ call.args.include_imports /\ call.args.include_exports
    /\ IsNone(call.args.regions)
    /\ outcome.kind = "ok"
    /\ Len(imports_file.rows) = 2
    /\ imports_file.rows[1] = Row(KeyAB_X, <<Num(2)>>)
    /\ imports_file.rows[2] = Row(KeyA_Y, <<Num(2)>>)
    /\ \E i, j \in 1..Len(exports_file.rows) :
          /\ Parses(exports_file, i) /\ Parses(exports_file, j)
          /\ FirstSegments(CodeOf(exports_file, i), 1) = <<"a">>
          /\ FirstSegments(CodeOf(exports_file, j), 1) = <<"a">>
          /\ CellOf(exports_file, i, call.args.year) = Num(1)
          /\ CellOf(exports_file, j, call.args.year) = Num(2)
    /\ outcome.value =
          <<[source |-> Some(<<"a">>), target |-> "Total Imports", value |-> Num(4)],
            [source |-> Some(<<"a">>), target |-> "Total Exports", value |-> Num(2)]>>

====
